---- MODULE Spec2Model ----
(***************************************************************************)
(* A model of reddit_collector.py: the main control thread walking every   *)
(* subreddit's /new listing and the article of every comment candidate     *)
(* through paginate_and_process, the enrichment threads it starts, the     *)
(* delegator (handle list + result queue) and the end-of-run finalization. *)
(*                                                                         *)
(* The upstream API is the environment.  A listing is a fixed function of  *)
(* the cursor; the model reveals it page by page, the first time a cursor  *)
(* is fetched successfully, and serves the same page again on a retry.     *)
(* Ages are compared with args.max_age only, so three ages (below, equal,  *)
(* above) stand for all of them.                                           *)
(*                                                                         *)
(* The run is the default configuration: --dump-comments and --dump-texts  *)
(* are off, so every handle in delegator['delegates'] is an enrichment     *)
(* thread.  The status-code histogram of process_response is written and   *)
(* never read by the pipeline; it is left out.  An enrichment thread ends  *)
(* in one step (queue.put, then the thread is dead), and each call of the  *)
(* main thread (one iteration of the while loop, one round of the          *)
(* finalization loop) is one step between which threads may end.           *)
(*                                                                         *)
(* Spec is that pipeline.  Four smaller specifications take the functions  *)
(* it calls over inputs the default run does not produce: SpecFold folds   *)
(* a list of results (any polarity or none, --word-stats matches, allow    *)
(* filters) in two orders; SpecWords writes one per-word report file run   *)
(* after run; SpecRuns runs processes one after the other, from the token  *)
(* request to the flat report file; SpecHooks makes one call of            *)
(* process_post_list or process_article on a page of any shape (link and   *)
(* self posts, posts without comments, comment forests three levels deep). *)
(***************************************************************************)
EXTENDS Integers, Sequences, FiniteSets, TLC

\* ---------------------------------------------------------------- bounds
NumChannels == 2        \* len(args.subreddit)
MaxPages    == 1        \* pages the API serves per listing
MaxPageLen  == 2        \* children per page
MaxReplies  == 1        \* replies under one top-level comment
MaxTasks    == 2        \* enrichment threads started in one run (the API
                        \* serves no page that would start more)
\* paginate_and_process tolerates `failures <= 99` non-200 responses (line
\* 184).  The threshold only ever is compared with the counter, so the model
\* scales it down; every formula below is stated relative to MaxFailures.
MaxFailures == 1
\* The top lists are cut at 50 entries (lines 447-457); scaled down likewise.
TopK == 1
MaxResults == 2         \* results folded into one accumulator
MaxWrites == 3          \* runs that write the same per-word report file
MaxRuns == 2            \* processes run one after the other

\* --------------------------------------------- configuration (CLI inputs)
MaxAge == 1             \* args.max_age
MinUps == 1             \* args.min_ups
Workers == 1            \* args.workers

None == 0               \* Python's None, for cursors
NoAge == -1             \* Python's None, for age_seconds
NoPolarity == -9        \* Python's None, for polarity (line 319)
Channels == 1..NumChannels
Ages == 0..(MaxAge + 1)
FailCap == MaxFailures + 2  \* the counter is kept exact up to here

SeqUpTo(S, n) == UNION {[1..k -> S] : k \in 0..n}

\* ------------------------------------------------------------ API payloads
\* A post of a /new listing: its age, ups and num_comments.  `bad` marks a
\* malformed child: reading its created_utc raises (KeyError / ValueError)
\* before anything is done for it, so its other fields are never read.
\* `selftext` tells whether the post has a text of its own (a self post) or
\* none (a link); the listings of the pipeline hold self posts.
GoodPosts ==
    [age : Ages, ups : {MinUps, MinUps + 1}, num_comments : {1}, selftext : {TRUE},
     bad : {FALSE}]
BadPost == [age |-> 0, ups |-> MinUps, num_comments |-> 1, selftext |-> TRUE, bad |-> TRUE]

\* The children a page of posts may hold: well-formed posts, then possibly a
\* malformed one (the children that follow a malformed child are never
\* looked at).
PostLists ==
    SeqUpTo(GoodPosts, MaxPageLen)
        \cup {Append(s, BadPost) : s \in SeqUpTo(GoodPosts, MaxPageLen - 1)}

\* A child of a comment listing: a comment (kind t1) with its replies, or a
\* "more" placeholder.  Replies hang under the comments of age 0.
Leaves == [kind : {"more"}, age : {0}, replies : {<<>>}]
            \cup [kind : {"t1"}, age : Ages, replies : {<<>>}]
Replies == [kind : {"more", "t1"}, age : {0}, replies : {<<>>}]
Comments == Leaves \cup [kind : {"t1"}, age : {0},
                         replies : SeqUpTo(Replies, MaxReplies) \ {<<>>}]

\* The pages the API can serve for cursor `cur`: data.children and data.after.
NextCursors(cur) == IF cur < MaxPages THEN {None, cur + 1} ELSE {None}
PostPages(cur) == [children : PostLists, after : NextCursors(cur)]
ArticlePages(cur) == [children : SeqUpTo(Comments, MaxPageLen), after : NextCursors(cur)]

\* ------------------------------------------------------- process_post_list
\* Index of the child at which the loop over data.children ends early: the
\* first malformed child (raises) or the first with age >= max_age (break);
\* Len + 1 when the loop runs to the end.
RECURSIVE PostStopFrom(_, _)
PostStopFrom(children, i) ==
    IF i > Len(children) THEN i
    ELSE IF children[i].bad \/ children[i].age >= MaxAge THEN i
    ELSE PostStopFrom(children, i + 1)

PostStop(children) == PostStopFrom(children, 1)

\* The final comparison of age_seconds with args.max_age (lines 271, 233).
DisablesPagination(age_seconds) == age_seconds > MaxAge

\* A candidate test that takes ups equal to min_ups.
IsCandidateAtMinUps(post) == post.ups >= MinUps /\ post.num_comments > 0

\* Lines 266-267: the post is a comment candidate.
IsCandidate(post) == post.ups > MinUps /\ post.num_comments > 0

\* process_post_list(payload): the children retained (indices, in order),
\* whether the hook raised, age_seconds after the loop (the age of the last
\* child examined) and the cursor the hook returns when it did not raise.
ProcessPostList(payload) ==
    LET children == payload.children
        stop     == PostStop(children)
        raised   == stop <= Len(children) /\ children[stop].bad
        examined == IF stop <= Len(children) THEN stop ELSE Len(children)
        age_seconds == IF examined = 0 THEN NoAge ELSE children[examined].age
    IN  [retained |-> [i \in 1..(stop - 1) |-> i],
         more     |-> <<>>,
         raised   |-> raised,
         age_seconds |-> age_seconds,
         cursor   |-> IF age_seconds = NoAge THEN None
                      ELSE IF DisablesPagination(age_seconds) THEN None
                      ELSE payload.after]

\* ---------------------------------------------------- process_comment_list
\* The comments of `children` for which a thread is started, as paths into
\* the forest, in the order the threads are started: a comment, then (by the
\* recursive call with skip_age_check=True) its replies.
RECURSIVE RetainedFrom(_, _, _, _)
RetainedFrom(children, i, skip_age_check, prefix) ==
    IF i > Len(children) THEN <<>>
    ELSE LET c    == children[i]
             rest == RetainedFrom(children, i + 1, skip_age_check, prefix)
         IN  IF c.kind = "more" THEN rest
             ELSE IF ~skip_age_check /\ c.age >= MaxAge THEN rest
             ELSE <<Append(prefix, i)>>
                    \o RetainedFrom(c.replies, 1, TRUE, Append(prefix, i))
                    \o rest

\* Index of the last child that is not a placeholder (0: none): the child
\* whose age age_seconds holds after the loop (line 212 runs before the age
\* check of line 213).
RECURSIVE LastCommentFrom(_, _)
LastCommentFrom(children, i) ==
    IF i = 0 THEN 0
    ELSE IF children[i].kind # "more" THEN i
    ELSE LastCommentFrom(children, i - 1)

\* The "more" placeholders appended to more_comments (lines 209-211), as
\* paths, in the order the loop meets them: those of `children`, and those
\* among the replies of every comment a thread is started for.
RECURSIVE MoreFrom(_, _, _, _)
MoreFrom(children, i, skip_age_check, prefix) ==
    IF i > Len(children) THEN <<>>
    ELSE LET c    == children[i]
             rest == MoreFrom(children, i + 1, skip_age_check, prefix)
         IN  IF c.kind = "more" THEN <<Append(prefix, i)>> \o rest
             ELSE IF ~skip_age_check /\ c.age >= MaxAge THEN rest
             ELSE MoreFrom(c.replies, 1, TRUE, Append(prefix, i)) \o rest

ProcessCommentList(payload, skip_age_check) ==
    LET children == payload.children
        lastc    == LastCommentFrom(children, Len(children))
        age_seconds == IF lastc = 0 THEN NoAge ELSE children[lastc].age
    IN  [retained |-> RetainedFrom(children, 1, skip_age_check, <<>>),
         more     |-> MoreFrom(children, 1, skip_age_check, <<>>),
         raised   |-> FALSE,
         age_seconds |-> age_seconds,
         cursor   |-> IF age_seconds = NoAge THEN None
                      ELSE IF DisablesPagination(age_seconds) THEN None
                      ELSE payload.after]

\* A process_article that leaves the age check on.
ProcessArticleAgeChecked(payload) == ProcessCommentList(payload, FALSE)

\* process_article: the comment forest, age check disabled.
ProcessArticle(payload) == ProcessCommentList(payload, TRUE)

\* -------------------------------------------------------------------- state
VARIABLES
    pc,         \* main thread: "paginate" (head of the while loop of
                \* paginate_and_process), "finalize" (loop of line 434),
                \* "reports" (line 512), "done", "aborted" (line 430)
    ch,         \* subreddit_name: the channel of the loop of line 393
    cand,       \* 0: the /new listing; k: the k-th comment candidate's article
    after,      \* paginate_and_process: the cursor
    failures,   \* paginate_and_process: the failure count
    abort,      \* the abort flag (lines 168, 383)
    last,       \* how the previous iteration of the while loop ended
    age_seconds,\* the hook's age_seconds when it returned in that iteration
    slept,      \* time.sleep(0.1) ran since the previous do_get call
    req,        \* the arguments of the previous do_get call: <<>> or <<r>>
    page,       \* the page of the current cursor, once served: <<>> or <<p>>
    stats,      \* stats['subreddit']: per channel
    tasks,      \* the enrichment threads started so far, in start order
    delegates,  \* delegator['delegates']: indices into tasks
    queue,      \* delegator['queue']: results put and not yet taken
    fin,        \* the channel of the loop of line 434
    reports,    \* the report files written
    num_joined  \* join_delegates: num_joined of the call just made (line 159)

pipeline_vars == <<pc, ch, cand, after, failures, abort, last, age_seconds, slept,
                   req, page, stats, tasks, delegates, queue, fin, reports,
                   num_joined>>

\* The folding of a fixed list of results into one accumulator, done twice:
\* side 1 takes the results in the order of the list, side 2 in the order
\* `order` (the order in which the threads happened to end).
VARIABLES
    results,    \* the tuples put on the queue by process_text_blob
    order,      \* a permutation of the indices of results
    filters,    \* filters['allow'] (lines 372-377): a list of word sets
    acc,        \* per side: stats['subreddit'][subreddit_name]
    folded,     \* per side: the number of finalize_delegate_result calls made
    raised      \* per side: the last call raised

fold_vars == <<results, order, filters, acc, folded, raised>>

\* One per-word report file (<out_dir>/<subreddit>.<stat_name>.tsv) over the
\* runs that write it.  A file is a list of lines, a line a list of fields
\* (words and values are non-empty and hold no tab, so that '\t'.join and
\* strip().split('\t') turn one into the other).
VARIABLES
    word_file,  \* [exists, lines]
    word_runs   \* the top list of every run whose row the file holds

word_vars == <<word_file, word_runs>>

\* The processes run one after the other on the same token file and the
\* same <out_dir>/subreddit.<stat_name>.tsv.  What a process does between
\* its token and its reports is the pipeline above; here it is one step.
VARIABLES
    rpc,        \* "start" (line 329), "token" (the loop of line 332),
                \* "run" (lines 361-537), "exited"
    runs,       \* the processes started so far
    token_file, \* /tmp/reddit.token.json: "missing", "fresh" or "stale"
    access_token_failures,
    token_posts,\* the requests.post calls the process has made
    api_requests, \* the process has called do_get
    exit_status,\* <<>> while the process runs, then <<status>>
    flat_file,  \* [exists, lines]
    flat_runs   \* per row of the file: the values of the run that wrote it

run_vars == <<rpc, runs, token_file, access_token_failures, token_posts,
              api_requests, exit_status, flat_file, flat_runs>>

\* One call of a hook on one response, from a state of the pipeline.
VARIABLES
    hook,       \* "process_post_list" or "process_article"
    hook_payload, \* the response the hook is called with: <<>> or <<p>>
    hook_called,\* the call has been made
    more_comments \* _tmp['more_comments'] of the channel (lines 209-211)

hook_vars == <<hook, hook_payload, hook_called, more_comments>>

\* What a run of the pipeline leaves alone.
not_pipeline == <<fold_vars, word_vars, run_vars, hook_vars>>

vars == <<pipeline_vars, not_pipeline>>

\* subreddit_stats_template and the _tmp map of lines 395-409.  `entities`
\* holds, for every result folded, the task it came from (every blob yields
\* one entity of its own).  The entry of a channel is created when its turn
\* comes (line 395) and read by nothing before; Init holds them all.
WordsTemplate ==
    [num_total |-> <<>>, num_interactions |-> <<>>,
     num_negative_interactions |-> <<>>, num_neutral_interactions |-> <<>>,
     num_positive_interactions |-> <<>>]

StatsTemplate ==
    [num_posts |-> 0, num_interactions |-> 0,
     num_urls |-> 0, num_selftexts |-> 0,
     num_negative |-> 0, num_neutral |-> 0, num_positive |-> 0,
     comment_candidates |-> <<>>, entities |-> <<>>, words |-> WordsTemplate]

\* The item a thread was started for.  A post is named by its channel, the
\* cursor of its page and its index; a comment also by its article's cursor
\* and its path in the forest.
PostId(c, cur, i) == [ch |-> c, cur |-> cur, idx |-> i, acur |-> None, path |-> <<>>]
CommentId(permalink, acur, path) == [permalink EXCEPT !.acur = acur, !.path = path]

\* The listing being paginated: the url argument of paginate_and_process
\* (lines 412, 422).
Url == [ch |-> ch,
        permalink |-> IF cand = 0 THEN <<>>
                      ELSE <<stats[ch].comment_candidates[cand]>>]

\* Lines 173-175: the `after` request parameter.
ApiParams(cursor) == IF cursor # None THEN <<cursor>> ELSE <<>>

DoGetArgs == <<[url |-> Url, after |-> ApiParams(after)]>>

\* failures += 1.  Above FailCap the counter is no longer told apart: the
\* code compares it with the threshold only.
Inc(n) == IF n < FailCap THEN n + 1 ELSE n

\* ---------------------------------------- the branches of the while loop
\* Each gives the locals after the branch and whether the loop goes on.
Locals(cursor, f, ab, enabled) ==
    [after |-> cursor, failures |-> f, abort |-> ab, paginate_enabled |-> enabled]

\* Lines 189-194: RateLimitException.
OnRateLimit(cursor, f) == Locals(cursor, f, FALSE, TRUE)

\* A loop that starts the listing over after an exception.
OnExceptionRestarts(cursor, f) == Locals(None, Inc(f), FALSE, TRUE)

\* Lines 195-197: any other exception.
OnException(cursor, f) == Locals(cursor, Inc(f), FALSE, TRUE)

\* Lines 184-188: a response that is not 200.
OnNon200(cursor, f) ==
    IF f <= MaxFailures THEN Locals(cursor, f + 1, FALSE, TRUE)
    ELSE Locals(cursor, f, TRUE, FALSE)

\* Lines 181-183: the hook returned `next`.
OnPage(next, f) == Locals(next, f, FALSE, next # None)

\* ------------------------------------------------- finalize_delegate_result
\* A Python dict is a sequence of [word, n] entries in insertion order (the
\* order Counter.most_common falls back on).
IndexOf(d, w) ==
    IF \E k \in 1..Len(d) : d[k].word = w
    THEN CHOOSE k \in 1..Len(d) : d[k].word = w
    ELSE 0

\* A table whose entry is overwritten by the latest count.
BumpOverwrites(d, w, n) ==
    IF IndexOf(d, w) > 0
    THEN [d EXCEPT ![IndexOf(d, w)].n = n]
    ELSE Append(d, [word |-> w, n |-> n])

\* Lines 124-129 (and 133-146): d[w] += n, or d[w] = n for a new key.
Bump(d, w, n) ==
    IF IndexOf(d, w) > 0
    THEN [d EXCEPT ![IndexOf(d, w)].n = @ + n]
    ELSE Append(d, [word |-> w, n |-> n])

\* A bucket choice that takes polarity 0 for positive.
PolarityBucketSigned(polarity) ==
    IF polarity = NoPolarity THEN "none"
    ELSE IF polarity >= 0 THEN "num_positive"
    ELSE "num_negative"

\* Lines 103-110: the bucket a polarity goes to.
PolarityBucket(polarity) ==
    IF polarity = NoPolarity THEN "none"
    ELSE IF polarity = 0 THEN "num_neutral"
    ELSE IF polarity > 0 THEN "num_positive"
    ELSE "num_negative"

\* Lines 102-110: the entities and the channel-level bucket.
FoldPolarity(a, res) ==
    LET b == PolarityBucket(res.polarity)
        e == [a EXCEPT !.entities = @ \o res.entities]
    IN  IF b = "num_neutral" THEN [e EXCEPT !.num_neutral = @ + 1]
        ELSE IF b = "num_positive" THEN [e EXCEPT !.num_positive = @ + 1]
        ELSE IF b = "num_negative" THEN [e EXCEPT !.num_negative = @ + 1]
        ELSE e

\* Lines 113-122: no filter file allows every match; with filter files a
\* match is valid if one of them holds it.
MatchIsValid(allow, match) ==
    allow = <<>> \/ \E k \in 1..Len(allow) : match \in allow[k]

\* Lines 124-129: a valid match is credited.
Credit(a, m) ==
    [a EXCEPT !.words.num_total = Bump(@, m.word, m.n),
              !.words.num_interactions = Bump(@, m.word, 1)]

\* Lines 130-146 for a polarity that is a number.  (For None, line 130
\* passes, line 132 is False and line 137 compares None with 0.)
CreditPolarity(a, m, polarity) ==
    IF polarity = 0
    THEN [a EXCEPT !.words.num_neutral_interactions = Bump(@, m.word, 1)]
    ELSE IF polarity > 0
    THEN [a EXCEPT !.words.num_positive_interactions = Bump(@, m.word, 1)]
    ELSE [a EXCEPT !.words.num_negative_interactions = Bump(@, m.word, 1)]

\* Lines 112-146: the loop over word_stats from its k-th item on.  `raised`
\* tells that the call ended in the TypeError of `None > 0` (line 137), with
\* the accumulator as the statements before it left it.
RECURSIVE FoldWords(_, _, _, _, _)
FoldWords(a, word_stats, k, polarity, allow) ==
    IF k > Len(word_stats) THEN [acc |-> a, raised |-> FALSE]
    ELSE IF ~MatchIsValid(allow, word_stats[k].word)
    THEN FoldWords(a, word_stats, k + 1, polarity, allow)
    ELSE IF polarity = NoPolarity
    THEN [acc |-> Credit(a, word_stats[k]), raised |-> TRUE]
    ELSE FoldWords(CreditPolarity(Credit(a, word_stats[k]), word_stats[k], polarity),
                   word_stats, k + 1, polarity, allow)

\* Lines 99-147, on the result `res` taken from the queue.
FinalizeDelegateResult(a, res, allow) ==
    FoldWords(FoldPolarity(a, res), res.word_stats, 1, res.polarity, allow)

\* Counter(list) (lines 446-447): the keys in first-occurrence order.
RECURSIVE CounterUpTo(_, _)
CounterUpTo(list, k) ==
    IF k = 0 THEN <<>> ELSE Bump(CounterUpTo(list, k - 1), list[k], 1)

Counter(list) == CounterUpTo(list, Len(list))

\* A sort that puts an entry before the entries of equal count.
InsertBeforeEqual(s, e) ==
    LET p == Cardinality({i \in 1..Len(s) : s[i].n > e.n})
    IN  SubSeq(s, 1, p) \o <<e>> \o SubSeq(s, p + 1, Len(s))

\* Counter.most_common(): sorted by count, largest first; the sort is stable,
\* so equal counts stay in insertion order.
InsertByCount(s, e) ==
    LET p == Cardinality({i \in 1..Len(s) : s[i].n >= e.n})
    IN  SubSeq(s, 1, p) \o <<e>> \o SubSeq(s, p + 1, Len(s))

RECURSIVE MostCommonUpTo(_, _)
MostCommonUpTo(d, k) ==
    IF k = 0 THEN <<>> ELSE InsertByCount(MostCommonUpTo(d, k - 1), d[k])

MostCommon(d) == MostCommonUpTo(d, Len(d))

\* [:50]
Top(s) == SubSeq(s, 1, IF Len(s) < TopK THEN Len(s) ELSE TopK)

\* Lines 440-444: a ratio as <<numerator, denominator>>; the template's 0
\* stays when the channel has no interactions.
Ratio(n, num_interactions) ==
    IF num_interactions > 0 THEN <<n, num_interactions>> ELSE <<0, 1>>

\* Lines 437-457: stats['subreddit'][subreddit_name]['stats'] at the end of
\* the finalization of a channel whose accumulator is `a`.
FinalStats(a) ==
    [num_posts |-> a.num_posts,
     num_interactions |-> a.num_interactions,
     num_urls |-> a.num_urls,
     num_selftexts |-> a.num_selftexts,
     num_negative |-> a.num_negative,
     num_neutral |-> a.num_neutral,
     num_positive |-> a.num_positive,
     num_comment_candidates |-> Len(a.comment_candidates),
     negative_polarity_ratio |-> Ratio(a.num_negative, a.num_interactions),
     positive_polarity_ratio |-> Ratio(a.num_positive, a.num_interactions),
     top_entities |-> Top(MostCommon(Counter(a.entities))),
     top_word_by_num_total |-> Top(MostCommon(a.words.num_total)),
     top_word_by_num_interactions |-> Top(MostCommon(a.words.num_interactions)),
     top_word_by_num_negative_interactions |->
        Top(MostCommon(a.words.num_negative_interactions)),
     top_word_by_num_neutral_interactions |->
        Top(MostCommon(a.words.num_neutral_interactions)),
     top_word_by_num_positive_interactions |->
        Top(MostCommon(a.words.num_positive_interactions))]

\* ----------------------------------------------------------- join_delegates
\* Lines 152-158: the handles left in delegator['delegates'].
RECURSIVE Reap(_, _, _)
Reap(dl, tk, block) ==
    IF dl = <<>> THEN <<>>
    ELSE IF tk[Head(dl)].alive /\ ~block THEN Tail(dl)
    ELSE Reap(Tail(dl), tk, block)

\* A loop that joins every finished handle of the list, past running ones.
RECURSIVE NumJoinedSkipping(_, _, _)
NumJoinedSkipping(dl, tk, block) ==
    IF dl = <<>> THEN 0
    ELSE IF tk[Head(dl)].alive /\ ~block THEN NumJoinedSkipping(Tail(dl), tk, block)
    ELSE 1 + NumJoinedSkipping(Tail(dl), tk, block)

\* Lines 150-158: num_joined, the number of delegate.join() calls.
RECURSIVE NumJoined(_, _, _)
NumJoined(dl, tk, block) ==
    IF dl = <<>> THEN 0
    ELSE IF tk[Head(dl)].alive /\ ~block THEN 0
    ELSE 1 + NumJoined(Tail(dl), tk, block)

\* TextBlob's polarity of an item's text.  The text is a fixed function of
\* the item; the model gives a post a positive text, a top-level comment a
\* neutral one and a reply a negative one.
Sentiment(item) ==
    IF item.path = <<>> THEN 1 ELSE IF Len(item.path) = 1 THEN 0 ELSE -1

\* Lines 317-320: the tuple thread t puts on the queue.  The run has no
\* --word-stats and no --skip-sentiments (the defaults); the blob yields one
\* entity of its own, named by the thread.
Result(t) ==
    [word_stats |-> <<>>, entities |-> <<t>>, polarity |-> Sentiment(tasks[t].item)]

\* A drain that folds every result it takes twice.
RECURSIVE DrainTwice(_, _, _)
DrainTwice(st, q, subreddit_name) ==
    IF q = <<>> THEN st
    ELSE LET once == [st EXCEPT ![subreddit_name] =
                        FinalizeDelegateResult(@, Result(Head(q)), <<>>).acc]
         IN  DrainTwice([once EXCEPT ![subreddit_name] =
                            FinalizeDelegateResult(@, Result(Head(q)), <<>>).acc],
                        Tail(q), subreddit_name)

\* Lines 160-162: every result on the queue is taken off it and folded by
\* finalize_delegate_result into the accumulator of subreddit_name (no
\* filter file is loaded by default, line 372).
RECURSIVE Drain(_, _, _)
Drain(st, q, subreddit_name) ==
    IF q = <<>> THEN st
    ELSE Drain([st EXCEPT ![subreddit_name] =
                    FinalizeDelegateResult(@, Result(Head(q)), <<>>).acc],
               Tail(q), subreddit_name)

\* ------------------------------------------------------------ the main loop
\* A main loop without the `if abort is True: break` of lines 425-428: an
\* abort in an article goes on with the next candidate or channel.
AfterReturnNoBreak(ab, st) ==
    IF ab /\ cand = 0 THEN [pc |-> "aborted", ch |-> ch, cand |-> cand]
    ELSE IF cand < Len(st[ch].comment_candidates)
         THEN [pc |-> "paginate", ch |-> ch, cand |-> cand + 1]
    ELSE IF ch < NumChannels
         THEN [pc |-> "paginate", ch |-> ch + 1, cand |-> 0]
    ELSE [pc |-> "finalize", ch |-> ch, cand |-> cand]

\* What the main program does when paginate_and_process returns (lines
\* 414-428): the next listing, the finalization, or the end of the run.
AfterReturn(ab, st) ==
    IF ab THEN [pc |-> "aborted", ch |-> ch, cand |-> cand]
    ELSE IF cand < Len(st[ch].comment_candidates)
         THEN [pc |-> "paginate", ch |-> ch, cand |-> cand + 1]
    ELSE IF ch < NumChannels
         THEN [pc |-> "paginate", ch |-> ch + 1, cand |-> 0]
    ELSE [pc |-> "finalize", ch |-> ch, cand |-> cand]

\* The end of one iteration of the while loop with locals `loc`: the loop
\* goes round again, or paginate_and_process returns and the caller goes on
\* (a new call starts with the locals of lines 168-171).
EndIteration(loc, outcome, age, pg, st) ==
    IF loc.paginate_enabled
    THEN /\ UNCHANGED <<pc, ch, cand>>
         /\ abort' = loc.abort
         /\ after' = loc.after
         /\ failures' = loc.failures
         /\ last' = outcome
         /\ age_seconds' = age
         /\ page' = pg
    ELSE LET n == AfterReturn(loc.abort, st)
         IN  /\ pc' = n.pc
             /\ ch' = n.ch
             /\ cand' = n.cand
             /\ abort' = loc.abort
             /\ after' = None
             /\ failures' = 0
             /\ last' = "none"
             /\ age_seconds' = NoAge
             /\ page' = <<>>

\* No folding experiment is set up.
FoldIdle ==
    /\ results = <<>>
    /\ order = <<>>
    /\ filters = <<>>
    /\ acc = <<>>
    /\ folded = <<>>
    /\ raised = <<>>

\* Lines 383-392: the state before the first subreddit.
PipelineInit ==
    /\ pc = "paginate"
    /\ ch = 1
    /\ cand = 0
    /\ after = None
    /\ failures = 0
    /\ abort = FALSE
    /\ last = "none"
    /\ age_seconds = NoAge
    /\ slept = FALSE
    /\ req = <<>>
    /\ page = <<>>
    /\ stats = [c \in Channels |-> StatsTemplate]
    /\ tasks = <<>>
    /\ delegates = <<>>
    /\ queue = <<>>
    /\ fin = 1
    /\ reports = [words |-> {}, flat |-> {}]
    /\ num_joined = 0

\* No report file of an earlier run.
WordIdle ==
    /\ word_file = [exists |-> FALSE, lines |-> <<>>]
    /\ word_runs = <<>>

\* The process of the pipeline holds a token; no flat report on file.
RunIdle ==
    /\ rpc = "run"
    /\ runs = 1
    /\ token_file = "fresh"
    /\ access_token_failures = 0
    /\ token_posts = 0
    /\ api_requests = FALSE
    /\ exit_status = <<>>
    /\ flat_file = [exists |-> FALSE, lines |-> <<>>]
    /\ flat_runs = <<>>

\* No hook call is singled out.
HookIdle ==
    /\ hook = "process_post_list"
    /\ hook_payload = <<>>
    /\ hook_called = FALSE
    /\ more_comments = <<>>

Init ==
    /\ PipelineInit
    /\ FoldIdle
    /\ WordIdle
    /\ RunIdle
    /\ HookIdle

\* do_get raises RateLimitException (lines 189-194): join the finished
\* delegates and drain the queue, or sleep.
RateLimited ==
    /\ pc = "paginate"
    /\ req' = DoGetArgs
    /\ IF delegates # <<>>
       THEN /\ delegates' = Reap(delegates, tasks, FALSE)
            /\ num_joined' = NumJoined(delegates, tasks, FALSE)
            /\ stats' = Drain(stats, queue, ch)
            /\ queue' = <<>>
            /\ slept' = FALSE
       ELSE /\ slept' = TRUE
            /\ num_joined' = 0
            /\ UNCHANGED <<delegates, stats, queue>>
    /\ EndIteration(OnRateLimit(after, failures), "ratelimit", NoAge, page, stats')
    /\ UNCHANGED <<tasks, fin, reports>>
    /\ UNCHANGED not_pipeline

\* requests.get or response.json() raises (lines 195-197).
RequestRaises ==
    /\ pc = "paginate"
    /\ req' = DoGetArgs
    /\ slept' = FALSE
    /\ EndIteration(OnException(after, failures), "exception", NoAge, page, stats)
    /\ num_joined' = 0
    /\ UNCHANGED <<stats, tasks, delegates, queue, fin, reports>>
    /\ UNCHANGED not_pipeline

\* A response whose status is not 200 (lines 179, 184-188).
Non200 ==
    /\ pc = "paginate"
    /\ req' = DoGetArgs
    /\ slept' = FALSE
    /\ EndIteration(OnNon200(after, failures), "non200", NoAge, page, stats)
    /\ num_joined' = 0
    /\ UNCHANGED <<stats, tasks, delegates, queue, fin, reports>>
    /\ UNCHANGED not_pipeline

\* The comment at `path` of a forest.
RECURSIVE NodeAt(_, _)
NodeAt(children, path) ==
    IF Len(path) = 1 THEN children[path[1]]
    ELSE NodeAt(children[path[1]].replies, Tail(path))

\* The pages the API may serve for the current request, the hook that
\* processes them, and the items the hook retained.
Pages == IF page # <<>> THEN {page[1]}
         ELSE IF cand = 0 THEN PostPages(after) ELSE ArticlePages(after)

Hook(payload) == IF cand = 0 THEN ProcessPostList(payload) ELSE ProcessArticle(payload)

RetainedItems(r) ==
    [k \in 1..Len(r.retained) |->
        IF cand = 0 THEN PostId(ch, after, r.retained[k])
        ELSE CommentId(stats[ch].comment_candidates[cand], after, r.retained[k])]

\* Lines 266-267: the permalinks of the retained posts that are candidates.
RECURSIVE Candidates(_, _, _)
Candidates(payload, r, k) ==
    IF k > Len(r.retained) THEN <<>>
    ELSE (IF IsCandidate(payload.children[r.retained[k]])
          THEN <<PostId(ch, after, r.retained[k])>> ELSE <<>>)
            \o Candidates(payload, r, k + 1)

\* The counters of the channel after the hook went over `payload` (lines
\* 254-267 for a post, 223 for a comment).  num_ups, num_awards and
\* num_comments are sums over the same retained items, updated by the same
\* statements: they are left out.  _tmp['more_comments'] is read nowhere;
\* it is kept apart, in more_comments.
Counted(st, payload, r) ==
    LET n == Len(r.retained)
        selftexts == Cardinality({k \in 1..n : payload.children[r.retained[k]].selftext})
    IN  IF cand = 0
        THEN [st EXCEPT
                ![ch].num_posts = @ + n,
                ![ch].num_interactions = @ + n,
                ![ch].num_urls = @ + (n - selftexts),
                ![ch].num_selftexts = @ + selftexts,
                ![ch].comment_candidates = @ \o Candidates(payload, r, 1)]
        ELSE [st EXCEPT
                ![ch].num_interactions = @ + n]

\* Lines 248-251, 216-219: one thread per retained item, started and
\* appended to delegator['delegates'].
Dispatch(r) ==
    LET items == RetainedItems(r)
    IN  /\ tasks' = tasks \o [k \in 1..Len(items) |-> [item |-> items[k], alive |-> TRUE]]
        /\ delegates' = delegates \o [k \in 1..Len(items) |-> Len(tasks) + k]

\* A 200 response whose page the hook processes to the end (lines 179-183).
PageProcessed ==
    /\ pc = "paginate"
    /\ \E payload \in Pages :
        LET r == Hook(payload)
        IN  /\ ~r.raised
            /\ Len(tasks) + Len(r.retained) <= MaxTasks
            /\ Dispatch(r)
            /\ stats' = Counted(stats, payload, r)
            /\ EndIteration(OnPage(r.cursor, failures), "ok", r.age_seconds, <<>>, stats')
    /\ req' = DoGetArgs
    /\ slept' = FALSE
    /\ num_joined' = 0
    /\ UNCHANGED <<queue, fin, reports>>
    /\ UNCHANGED not_pipeline

\* A 200 response whose page holds a malformed child: the hook raises at it,
\* after the children before it were processed (lines 195-197).
PageRaises ==
    /\ pc = "paginate"
    /\ \E payload \in Pages :
        LET r == Hook(payload)
        IN  /\ r.raised
            /\ Len(tasks) + Len(r.retained) <= MaxTasks
            /\ Dispatch(r)
            /\ stats' = Counted(stats, payload, r)
            /\ EndIteration(OnException(after, failures), "exception", NoAge,
                            <<payload>>, stats')
    /\ req' = DoGetArgs
    /\ slept' = FALSE
    /\ num_joined' = 0
    /\ UNCHANGED <<queue, fin, reports>>
    /\ UNCHANGED not_pipeline

\* process_text_blob ends: the thread puts its result on the queue and dies.
Finish(t) ==
    /\ tasks[t].alive
    /\ tasks' = [tasks EXCEPT ![t].alive = FALSE]
    /\ queue' = Append(queue, t)
    /\ UNCHANGED <<pc, ch, cand, after, failures, abort, last, age_seconds, slept,
                   req, page, stats, delegates, fin, reports, num_joined>>
    /\ UNCHANGED not_pipeline

\* One round of the loop of line 434: the blocking join_delegates (it waits
\* for every handle still listed), the finalization of the channel and its
\* per-word report files.
Finalize ==
    /\ pc = "finalize"
    /\ \A k \in 1..Len(delegates) : ~tasks[delegates[k]].alive
    /\ delegates' = Reap(delegates, tasks, TRUE)
    /\ num_joined' = NumJoined(delegates, tasks, TRUE)
    /\ stats' = Drain(stats, queue, fin)
    /\ queue' = <<>>
    /\ reports' = [reports EXCEPT !.words = @ \cup {fin}]
    /\ IF fin < NumChannels
       THEN fin' = fin + 1 /\ pc' = pc
       ELSE fin' = fin /\ pc' = "reports"
    /\ UNCHANGED <<ch, cand, after, failures, abort, last, age_seconds, slept, req,
                   page, tasks>>
    /\ UNCHANGED not_pipeline

\* Lines 512-537: one row per metric file, a column per channel.
WriteReports ==
    /\ pc = "reports"
    /\ reports' = [reports EXCEPT !.flat = Channels]
    /\ pc' = "done"
    /\ UNCHANGED <<ch, cand, after, failures, abort, last, age_seconds, slept, req,
                   page, stats, tasks, delegates, queue, fin, num_joined>>
    /\ UNCHANGED not_pipeline

Next ==
    \/ RateLimited
    \/ RequestRaises
    \/ Non200
    \/ PageProcessed
    \/ PageRaises
    \/ \E t \in 1..Len(tasks) : Finish(t)
    \/ Finalize
    \/ WriteReports

Spec == Init /\ [][Next]_vars

\* ---------------------------------------------- one hook call on any page
\* The pages a hook may be handed: posts with or without text, comments or
\* ups, and comment forests three levels deep with comments of every age.
FullPosts ==
    [age : Ages, ups : {MinUps, MinUps + 1}, num_comments : 0..1, selftext : BOOLEAN,
     bad : {FALSE}]
FullPostLists ==
    SeqUpTo(FullPosts, MaxPageLen)
        \cup {Append(l, BadPost) : l \in SeqUpTo(FullPosts, MaxPageLen - 1)}
FullPostPages == [children : FullPostLists, after : NextCursors(None)]

Level2 == Leaves
Level1 == Leaves \cup [kind : {"t1"}, age : Ages,
                        replies : SeqUpTo(Level2, MaxReplies) \ {<<>>}]
Level0 == Leaves \cup [kind : {"t1"}, age : Ages,
                        replies : SeqUpTo(Level1, MaxReplies) \ {<<>>}]
FullArticlePages == [children : SeqUpTo(Level0, MaxPageLen), after : NextCursors(None)]

\* The pipeline when the /new listing of the first channel has ended after
\* one page with one post, a comment candidate: the first request for the
\* candidate's article is about to be made.
ArticleStart ==
    /\ pc = "paginate"
    /\ ch = 1
    /\ cand = 1
    /\ after = None
    /\ failures = 0
    /\ abort = FALSE
    /\ last = "none"
    /\ age_seconds = NoAge
    /\ slept = FALSE
    /\ req = <<[url |-> [ch |-> 1, permalink |-> <<>>], after |-> <<>>]>>
    /\ page = <<>>
    /\ stats = [c \in Channels |->
                    IF c = 1
                    THEN [StatsTemplate EXCEPT
                            !.num_posts = 1, !.num_interactions = 1, !.num_selftexts = 1,
                            !.comment_candidates = <<PostId(1, None, 1)>>]
                    ELSE StatsTemplate]
    /\ tasks = <<[item |-> PostId(1, None, 1), alive |-> TRUE]>>
    /\ delegates = <<1>>
    /\ queue = <<>>
    /\ fin = 1
    /\ reports = [words |-> {}, flat |-> {}]
    /\ num_joined = 0

InitHooks ==
    /\ FoldIdle
    /\ WordIdle
    /\ RunIdle
    /\ hook_called = FALSE
    /\ more_comments = <<>>
    /\ \/ /\ PipelineInit
          /\ hook = "process_post_list"
          /\ hook_payload \in {<<p>> : p \in FullPostPages}
       \/ /\ ArticleStart
          /\ hook = "process_article"
          /\ hook_payload \in {<<p>> : p \in FullArticlePages}

\* The response is 200 and the hook processes the page to the end (lines
\* 179-183).
HookReturns ==
    /\ ~hook_called
    /\ pc = "paginate"
    /\ LET payload == hook_payload[1]
           r == Hook(payload)
       IN  /\ ~r.raised
           /\ Dispatch(r)
           /\ stats' = Counted(stats, payload, r)
           /\ more_comments' = more_comments \o r.more
           /\ EndIteration(OnPage(r.cursor, failures), "ok", r.age_seconds, <<>>, stats')
    /\ req' = DoGetArgs
    /\ slept' = FALSE
    /\ num_joined' = 0
    /\ hook_called' = TRUE
    /\ UNCHANGED <<queue, fin, reports, hook, hook_payload>>
    /\ UNCHANGED <<fold_vars, word_vars, run_vars>>

\* The response is 200 and the hook raises at a malformed child (lines
\* 195-197).
HookRaises ==
    /\ ~hook_called
    /\ pc = "paginate"
    /\ LET payload == hook_payload[1]
           r == Hook(payload)
       IN  /\ r.raised
           /\ Dispatch(r)
           /\ stats' = Counted(stats, payload, r)
           /\ more_comments' = more_comments \o r.more
           /\ EndIteration(OnException(after, failures), "exception", NoAge,
                           <<payload>>, stats')
    /\ req' = DoGetArgs
    /\ slept' = FALSE
    /\ num_joined' = 0
    /\ hook_called' = TRUE
    /\ UNCHANGED <<queue, fin, reports, hook, hook_payload>>
    /\ UNCHANGED <<fold_vars, word_vars, run_vars>>

NextHooks == HookReturns \/ HookRaises

SpecHooks == InitHooks /\ [][NextHooks]_vars

\* ------------------------------------------- folding, as a function of order
\* The results a thread may put: polarities of every sign and None, the
\* matches of --word-stats (a word may be matched once or twice in a blob)
\* and the entities found.
Polarities == {NoPolarity, -1, 0, 1}
WordStats ==
    {<<>>, <<[word |-> "a", n |-> 1]>>, <<[word |-> "a", n |-> 2]>>,
     <<[word |-> "b", n |-> 1]>>}
EntityLists == {<<>>, <<"x">>, <<"y">>, <<"x", "x">>}
FoldResults == [word_stats : WordStats, entities : EntityLists, polarity : Polarities]

\* No --exclusive-word-filter, or one filter file that allows "a".
AllowLists == {<<>>, <<{"a"}>>}

Perms(n) == {f \in [1..n -> 1..n] : \A i, j \in 1..n : f[i] = f[j] => i = j}

InitFold ==
    /\ PipelineInit
    /\ WordIdle
    /\ RunIdle
    /\ HookIdle
    /\ results \in UNION {[1..n -> FoldResults] : n \in 1..MaxResults}
    /\ order \in Perms(Len(results))
    /\ filters \in AllowLists
    /\ acc = <<StatsTemplate, StatsTemplate>>
    /\ folded = <<0, 0>>
    /\ raised = <<FALSE, FALSE>>

\* The result side `side` folds in its k-th call.
Turn(side, k) == IF side = 1 THEN results[k] ELSE results[order[k]]

\* One call of finalize_delegate_result on a side.  An exception raised by
\* the call is caught nowhere (join_delegates is called from an except
\* clause and from the main program): the side folds no more.
Fold(side) ==
    /\ ~raised[side]
    /\ folded[side] < Len(results)
    /\ LET r == FinalizeDelegateResult(acc[side], Turn(side, folded[side] + 1), filters)
       IN  /\ acc' = [acc EXCEPT ![side] = r.acc]
           /\ raised' = [raised EXCEPT ![side] = r.raised]
    /\ folded' = [folded EXCEPT ![side] = @ + 1]
    /\ UNCHANGED <<results, order, filters>>
    /\ UNCHANGED <<pipeline_vars, word_vars, run_vars, hook_vars>>

NextFold == Fold(1) \/ Fold(2)

SpecFold == InitFold /\ [][NextFold]_vars

\* ------------------------------------------------- the per-word report file
\* str(num) and the strftime of the k-th write.
Str(n) == <<"0", "1", "2", "3", "4", "5", "6", "7", "8", "9">>[n + 1]
TimeStamp(k) == <<"t1", "t2", "t3", "t4", "t5">>[k]

\* The top lists a finalization hands to the writer: up to TopK entries of
\* distinct words, largest count first.
TopEntries == [word : {"a", "b"}, n : 1..2]
WordTops ==
    {l \in SeqUpTo(TopEntries, TopK) :
        \A i, j \in 1..Len(l) : i < j => l[i].word # l[j].word /\ l[i].n >= l[j].n}

\* list.index(x), counted from 1.
Position(l, x) == CHOOSE k \in 1..Len(l) : l[k] = x /\ \A j \in 1..(k - 1) : l[j] # x

\* Lines 465-477: column_names and rows as loaded from the file.  readline
\* on an empty file gives '', whose only token is not 'timestamp'.
Loaded(file) ==
    IF file.exists /\ file.lines # <<>> /\ file.lines[1] # <<>>
                   /\ file.lines[1][1] = "timestamp"
    THEN [column_names |-> file.lines[1], rows |-> Tail(file.lines)]
    ELSE [column_names |-> <<"timestamp">>, rows |-> <<>>]

\* Lines 489-498: the value of entry e goes to index idx of new_row.
Place(column_names, new_row, e) ==
    LET idx == Position(column_names, e.word) - 1
        new_row_size == Len(new_row)
    IN  IF new_row_size = idx THEN Append(new_row, Str(e.n))
        ELSE IF new_row_size < idx
        THEN Append(new_row \o [j \in 1..(idx - new_row_size) |-> "0"], Str(e.n))
        ELSE [new_row EXCEPT ![idx + 1] = Str(e.n)]

\* Lines 482-498: the loop over the top list from its k-th entry on.
RECURSIVE RowLoop(_, _, _, _, _)
RowLoop(column_names, rows, new_row, top, k) ==
    IF k > Len(top)
    THEN [column_names |-> column_names, rows |-> rows, new_row |-> new_row]
    ELSE IF \A j \in 1..Len(column_names) : column_names[j] # top[k].word
    THEN LET names == Append(column_names, top[k].word)
         IN  RowLoop(names, [r \in 1..Len(rows) |-> Append(rows[r], "0")],
                     Place(names, new_row, top[k]), top, k + 1)
    ELSE RowLoop(column_names, rows, Place(column_names, new_row, top[k]), top, k + 1)

\* Lines 465-506: the file after a run has written the top list `top`.
WordReport(file, top, timestamp) ==
    LET old == Loaded(file)
        new == RowLoop(old.column_names, old.rows, <<timestamp>>, top, 1)
    IN  [exists |-> TRUE,
         lines |-> <<new.column_names>> \o new.rows \o <<new.new_row>>]

\* Before the first run the file is missing, or there and empty.
InitWords ==
    /\ PipelineInit
    /\ FoldIdle
    /\ RunIdle
    /\ HookIdle
    /\ word_file \in [exists : BOOLEAN, lines : {<<>>}]
    /\ word_runs = <<>>

\* One run writes the file.  The rows loaded are those of the runs before,
\* unless the header was not recognised.
WriteWordReport ==
    /\ Len(word_runs) < MaxWrites
    /\ \E top \in WordTops :
        /\ word_file' = WordReport(word_file, top, TimeStamp(Len(word_runs) + 1))
        /\ word_runs' = [k \in 1..(Len(Loaded(word_file).rows) + 1) |->
                            IF k <= Len(Loaded(word_file).rows) THEN word_runs[k] ELSE top]
    /\ UNCHANGED <<pipeline_vars, fold_vars, run_vars, hook_vars>>

NextWords == WriteWordReport

SpecWords == InitWords /\ [][NextWords]_vars

\* ------------------------------------- processes: token and flat report file
\* The subreddit names a process may be given, in lexicographic order, and
\* sorted(S) for a set S of them.
Names == <<"a", "b">>

RECURSIVE SortedFrom(_, _)
SortedFrom(S, k) ==
    IF k > Len(Names) THEN <<>>
    ELSE (IF Names[k] \in S THEN <<Names[k]>> ELSE <<>>) \o SortedFrom(S, k + 1)

Sorted(S) == SortedFrom(S, 1)

\* The values of one stat_name at the end of a run: one per subreddit.
StatValues ==
    UNION {[S -> 0..1] : S \in (SUBSET {Names[k] : k \in 1..Len(Names)}) \ {{}}}

\* Lines 522-529: write_new_file.
WriteNewFile(file, sorted_subreddits) ==
    \/ ~file.exists
    \/ file.lines = <<>>
    \/ Len(file.lines[1]) # Len(sorted_subreddits) + 1

\* Lines 512-537 for one stat_name: the file after the run has written the
\* values `data`.
FlatReport(file, data, timestamp) ==
    LET sorted_subreddits == Sorted(DOMAIN data)
        serialized_data ==
            <<timestamp>> \o [k \in 1..Len(sorted_subreddits) |->
                                Str(data[sorted_subreddits[k]])]
    IN  IF WriteNewFile(file, sorted_subreddits)
        THEN [exists |-> TRUE,
              lines |-> <<<<"timestamp">> \o sorted_subreddits, serialized_data>>]
        ELSE [exists |-> TRUE, lines |-> Append(file.lines, serialized_data)]

\* The first process starts; the token file and the report file are
\* whatever earlier runs left.
InitRuns ==
    /\ PipelineInit
    /\ FoldIdle
    /\ WordIdle
    /\ HookIdle
    /\ rpc = "start"
    /\ runs = 1
    /\ token_file \in {"missing", "fresh", "stale"}
    /\ access_token_failures = 0
    /\ token_posts = 0
    /\ api_requests = FALSE
    /\ exit_status = <<>>
    /\ flat_file \in [exists : BOOLEAN, lines : {<<>>}]
    /\ flat_runs = <<>>

\* Lines 329-331 and 355-359: a token file younger than 2700 s is read;
\* otherwise the process asks for a token.
CheckTokenFile ==
    /\ rpc = "start"
    /\ rpc' = IF token_file = "fresh" THEN "run" ELSE "token"
    /\ access_token_failures' = 0
    /\ UNCHANGED <<runs, token_file, token_posts, api_requests, exit_status,
                   flat_file, flat_runs>>
    /\ UNCHANGED <<pipeline_vars, fold_vars, word_vars, hook_vars>>

\* Lines 333-348: the request is answered 200; the token is written.
TokenGranted ==
    /\ rpc = "token"
    /\ token_posts' = token_posts + 1
    /\ token_file' = "fresh"
    /\ rpc' = "run"
    /\ UNCHANGED <<runs, access_token_failures, api_requests, exit_status,
                   flat_file, flat_runs>>
    /\ UNCHANGED <<pipeline_vars, fold_vars, word_vars, hook_vars>>

\* Lines 333-343 and 349-354: the request is answered otherwise.
TokenRefused ==
    /\ rpc = "token"
    /\ token_posts' = token_posts + 1
    /\ IF access_token_failures < 3
       THEN /\ access_token_failures' = access_token_failures + 1
            /\ UNCHANGED <<rpc, exit_status>>
       ELSE /\ rpc' = "exited"
            /\ exit_status' = <<1>>
            /\ UNCHANGED access_token_failures
    /\ UNCHANGED <<runs, token_file, api_requests, flat_file, flat_runs>>
    /\ UNCHANGED <<pipeline_vars, fold_vars, word_vars, hook_vars>>

\* Lines 383-430: the run aborts; the program ends after logging.error.
RunAborts ==
    /\ rpc = "run"
    /\ api_requests' = TRUE
    /\ rpc' = "exited"
    /\ exit_status' = <<0>>
    /\ UNCHANGED <<runs, token_file, access_token_failures, token_posts,
                   flat_file, flat_runs>>
    /\ UNCHANGED <<pipeline_vars, fold_vars, word_vars, hook_vars>>

\* Lines 383-537: the run completes and writes its row.
RunCompletes ==
    /\ rpc = "run"
    /\ api_requests' = TRUE
    /\ \E data \in StatValues :
        /\ flat_file' = FlatReport(flat_file, data, TimeStamp(runs))
        /\ flat_runs' = IF WriteNewFile(flat_file, Sorted(DOMAIN data))
                        THEN <<data>> ELSE Append(flat_runs, data)
    /\ rpc' = "exited"
    /\ exit_status' = <<0>>
    /\ UNCHANGED <<runs, token_file, access_token_failures, token_posts>>
    /\ UNCHANGED <<pipeline_vars, fold_vars, word_vars, hook_vars>>

\* The next process starts, at once or after the token has grown old.
NextProcess ==
    /\ rpc = "exited"
    /\ runs < MaxRuns
    /\ runs' = runs + 1
    /\ rpc' = "start"
    /\ token_file' \in (IF token_file = "fresh" THEN {"fresh", "stale"} ELSE {token_file})
    /\ access_token_failures' = 0
    /\ token_posts' = 0
    /\ api_requests' = FALSE
    /\ exit_status' = <<>>
    /\ UNCHANGED <<flat_file, flat_runs>>
    /\ UNCHANGED <<pipeline_vars, fold_vars, word_vars, hook_vars>>

NextRuns ==
    \/ CheckTokenFile
    \/ TokenGranted
    \/ TokenRefused
    \/ RunAborts
    \/ RunCompletes
    \/ NextProcess

SpecRuns == InitRuns /\ [][NextRuns]_vars

\* ------------------------------------------------------------------ claims
\* How often the result of task t was folded, over all accumulators.
RECURSIVE Occurrences(_, _)
Occurrences(s, x) ==
    IF s = <<>> THEN 0
    ELSE (IF Head(s) = x THEN 1 ELSE 0) + Occurrences(Tail(s), x)

RECURSIVE FoldsUpTo(_, _)
FoldsUpTo(t, c) ==
    IF c = 0 THEN 0 ELSE Occurrences(stats[c].entities, t) + FoldsUpTo(t, c - 1)

Folds(t) == FoldsUpTo(t, NumChannels)

\* A step of the main thread (a thread that ends changes a task in place).
MainStep == ~(Len(tasks') = Len(tasks) /\ tasks' # tasks)

Retried == {"ratelimit", "non200", "exception"}

\* C1: when the reports of a run that did not abort have been written, the
\* result of every thread started has been folded exactly once, no thread
\* is still running and no result is on the queue.
C1_AllFoldedAtReports ==
    pc = "done" =>
        /\ queue = <<>>
        /\ \A t \in 1..Len(tasks) : ~tasks[t].alive /\ Folds(t) = 1

\* C2: every result folded into a channel's accumulator comes from a thread
\* started for an item of that channel.
C2_FoldedIntoOwnChannel ==
    \A c \in Channels : \A k \in 1..Len(stats[c].entities) :
        tasks[stats[c].entities[k]].item.ch = c

\* The items of channel c a thread was started for (every item that is
\* counted starts one), and the posts among them.
ItemsOf(c) == {tasks[t].item : t \in {u \in 1..Len(tasks) : tasks[u].item.ch = c}}
PostsOf(c) == {i \in ItemsOf(c) : i.path = <<>>}

\* C3: every item contributes to its channel's counters at most once: the
\* counters never exceed the number of distinct items processed and no
\* permalink is a comment candidate twice.
C3_CountedAtMostOnce ==
    \A c \in Channels :
        /\ stats[c].num_posts <= Cardinality(PostsOf(c))
        /\ stats[c].num_interactions <= Cardinality(ItemsOf(c))
        /\ \A i, j \in 1..Len(stats[c].comment_candidates) :
                i # j => stats[c].comment_candidates[i] # stats[c].comment_candidates[j]

\* C4: the while loop asks for another page of a /new listing only if the
\* hook met no post of age >= max_age on the page it just processed.
C4_CutoffStopsPagination ==
    (pc = "paginate" /\ cand = 0 /\ last = "ok") => age_seconds < MaxAge

\* C5: the while loop asks for another page only after a page from which the
\* hook retained at least one item.
C5_EmptyPageStopsPagination ==
    [][(MainStep /\ pc' = "paginate" /\ last' = "ok") => Len(tasks') > Len(tasks)]_vars

\* C6: the while loop is not running with a failure count beyond the one at
\* which a failure aborts (failures > MaxFailures), whether the failures were
\* non-200 responses or exceptions.
C6_FailuresBounded ==
    pc = "paginate" => failures <= MaxFailures + 1

\* C7: once a call has returned abort = True the main thread takes no
\* further step (no request for the remaining candidates or channels) and no
\* report file is or has been written.
C7_AbortStopsRun ==
    [][abort' => /\ pc' = "aborted"
                 /\ reports' = [words |-> {}, flat |-> {}]
                 /\ (abort => UNCHANGED <<pc, ch, cand, after, failures, last, slept,
                                         req, page, stats, delegates, fin>>)]_vars

\* C7 witness: the run aborted in the first candidate's article of channel 1,
\* with posts counted, a candidate and a channel still to go.
C7_Witness ==
    /\ abort
    /\ pc = "aborted"
    /\ ch < NumChannels
    /\ cand >= 1
    /\ cand < Len(stats[ch].comment_candidates)
    /\ stats[ch].num_posts > 0

\* C8: when the run has aborted in channel k, the report files hold the
\* channels 1..k-1.
C8_CompletedChannelsWritten ==
    pc = "aborted" => \A c \in 1..(ch - 1) : c \in reports.words /\ c \in reports.flat

\* C9: the request after a RateLimitException is made only after a sleep.
C9_BackoffBeforeRetry ==
    (pc = "paginate" /\ last = "ratelimit") => slept

\* C10: handling RateLimitException leaves failures, abort and the cursor as
\* they were; a non-200 response or an exception leaves the cursor as it was;
\* the call after any of them has the arguments of the call before; and the
\* first call of a listing carries no `after`.
C10_RetrySameCall ==
    [][(MainStep /\ pc = "paginate") =>
          /\ (last = "none" => req'[1].after = <<>>)
          /\ (last \in Retried => req' = req)
          /\ (pc' = "paginate" /\ last' = "ratelimit" =>
                failures' = failures /\ abort' = abort /\ after' = after)
          /\ (pc' = "paginate" /\ last' \in Retried => after' = after)]_vars

\* C10 witness: a rate-limited call of a listing's second page, after a
\* failure, carried the cursor.
C10_Witness ==
    /\ pc = "paginate"
    /\ last = "ratelimit"
    /\ after # None
    /\ failures > 0
    /\ req[1].after = <<after>>

\* The number of folds made so far, over all accumulators, and the number of
\* results put on the queue so far (a thread puts one result, then is dead).
RECURSIVE TotalFoldsUpTo(_)
TotalFoldsUpTo(c) ==
    IF c = 0 THEN 0 ELSE Len(stats[c].entities) + TotalFoldsUpTo(c - 1)

TotalFolds == TotalFoldsUpTo(NumChannels)

Puts == Cardinality({t \in 1..Len(tasks) : ~tasks[t].alive})

\* C11: no result is folded more than once, a result still on the queue has
\* not been folded, and every result put is either on the queue or folded
\* (each fold took one result off the queue): the folds never exceed the
\* results put, whatever non-blocking and blocking joins were made.
C11_FoldedAtMostOnce ==
    /\ \A t \in 1..Len(tasks) : Folds(t) <= 1
    /\ \A k \in 1..Len(queue) : Folds(queue[k]) = 0
    /\ TotalFolds + Len(queue) = Puts
    /\ TotalFolds <= Puts

\* C11 witness: a completed run in which two results were folded, one by a
\* non-blocking join while channel 2 was paginated.
C11_Witness ==
    /\ pc = "done"
    /\ TotalFolds = 2
    /\ stats[1].entities # <<>>
    /\ stats[2].entities # <<>>

\* The enrichment threads running at the moment.
Running == {t \in 1..Len(tasks) : tasks[t].alive}

\* C12: no more than args.workers enrichment threads run at a time.
C12_WorkersBounded == Cardinality(Running) <= Workers

\* Both sides have folded every result.
Folded == \A side \in 1..2 : folded[side] = Len(results) /\ ~raised[side]

\* A dict as a map (Python's dict equality), and the counts of a top list
\* by rank.
AsMap(d) == {d[k] : k \in 1..Len(d)}
Counts(l) == [k \in 1..Len(l) |-> l[k].n]

WordTables ==
    {"num_total", "num_interactions", "num_negative_interactions",
     "num_neutral_interactions", "num_positive_interactions"}
TopLists ==
    {"top_entities", "top_word_by_num_total", "top_word_by_num_interactions",
     "top_word_by_num_negative_interactions", "top_word_by_num_neutral_interactions",
     "top_word_by_num_positive_interactions"}

\* C13: folding the same results in another order gives the same finalized
\* values: buckets, per-word tables and top lists, members and order.
C13_FoldCommutes ==
    Folded =>
        /\ \A w \in WordTables : AsMap(acc[1].words[w]) = AsMap(acc[2].words[w])
        /\ FinalStats(acc[1]) = FinalStats(acc[2])

\* C13, amended: folding the same results in another order gives the same
\* buckets, the same per-word tables and entity counts, and top lists of
\* the same length with the same count at every rank.
C13_FoldCommutesUpToTies ==
    Folded =>
        /\ acc[1].num_negative = acc[2].num_negative
        /\ acc[1].num_neutral = acc[2].num_neutral
        /\ acc[1].num_positive = acc[2].num_positive
        /\ \A w \in WordTables : AsMap(acc[1].words[w]) = AsMap(acc[2].words[w])
        /\ AsMap(Counter(acc[1].entities)) = AsMap(Counter(acc[2].entities))
        /\ \A l \in TopLists :
                Counts(FinalStats(acc[1])[l]) = Counts(FinalStats(acc[2])[l])

\* C13 witness: two results folded in the two orders, with a word credited
\* and the two entity lists ranked differently.
C13_Witness ==
    /\ Folded
    /\ order = <<2, 1>>
    /\ acc[1].words.num_positive_interactions # <<>>
    /\ FinalStats(acc[1]).top_entities # FinalStats(acc[2]).top_entities

\* The number of results a side has folded whose polarity is in S.
FoldedWith(side, S) ==
    Cardinality({k \in 1..folded[side] : Turn(side, k).polarity \in S})

\* C14: after any folds into an accumulator num_neutral counts the folded
\* results of polarity 0, num_positive those above 0, num_negative those
\* below 0, and the three sum to the folded results whose polarity is not
\* None.
C14_BucketsCountPolarities ==
    \A side \in 1..2 :
        /\ acc[side].num_neutral = FoldedWith(side, {0})
        /\ acc[side].num_positive = FoldedWith(side, {p \in Polarities : p # NoPolarity /\ p > 0})
        /\ acc[side].num_negative = FoldedWith(side, {p \in Polarities : p # NoPolarity /\ p < 0})
        /\ acc[side].num_neutral + acc[side].num_positive + acc[side].num_negative
                = FoldedWith(side, Polarities \ {NoPolarity})

\* C14 witness: a neutral result and one without polarity have been folded.
C14_Witness ==
    /\ folded[1] = 2
    /\ ~raised[1]
    /\ results[1].polarity = 0
    /\ results[2].polarity = NoPolarity
    /\ acc[1].num_neutral = 1

\* d[w], 0 for a missing key.
Get(d, w) == IF IndexOf(d, w) > 0 THEN d[IndexOf(d, w)].n ELSE 0

\* C15: a fold of a result without polarity completes normally, leaves the
\* three buckets and the three per-word polarity tables as they were, and
\* credits num_total and num_interactions of every valid match.
C15_AbsentPolarityFolds ==
    [][\A side \in 1..2 :
        (folded'[side] = folded[side] + 1
            /\ Turn(side, folded'[side]).polarity = NoPolarity) =>
          /\ ~raised'[side]
          /\ acc'[side].num_negative = acc[side].num_negative
          /\ acc'[side].num_neutral = acc[side].num_neutral
          /\ acc'[side].num_positive = acc[side].num_positive
          /\ acc'[side].words.num_negative_interactions
                = acc[side].words.num_negative_interactions
          /\ acc'[side].words.num_neutral_interactions
                = acc[side].words.num_neutral_interactions
          /\ acc'[side].words.num_positive_interactions
                = acc[side].words.num_positive_interactions
          /\ LET ws == Turn(side, folded'[side]).word_stats
             IN  \A k \in 1..Len(ws) :
                    MatchIsValid(filters, ws[k].word) =>
                      /\ Get(acc'[side].words.num_total, ws[k].word)
                            = Get(acc[side].words.num_total, ws[k].word) + ws[k].n
                      /\ Get(acc'[side].words.num_interactions, ws[k].word)
                            = Get(acc[side].words.num_interactions, ws[k].word) + 1]_vars

\* The count run r reported for word w, 0 if it reported none.
Reported(r, w) ==
    IF \E k \in 1..Len(word_runs[r]) : word_runs[r][k].word = w
    THEN (CHOOSE e \in {word_runs[r][k] : k \in 1..Len(word_runs[r])} : e.word = w).n
    ELSE 0

\* C16: in a per-word report file every row has as many fields as the
\* header, and the row of run r holds under the column of word w the count
\* run r reported for w, 0 if it reported none (w was absent from that run,
\* or its column was added later).
C16_RowsMatchHeader ==
    word_file.lines # <<>> =>
        LET header == word_file.lines[1]
        IN  \A r \in 1..Len(word_runs) :
                LET row == word_file.lines[r + 1]
                IN  /\ Len(row) = Len(header)
                    /\ \A j \in 2..Len(header) :
                            j <= Len(row) => row[j] = Str(Reported(r, header[j]))

\* The channels of a header are in lexicographic order.
InOrder(header) ==
    \E S \in SUBSET {Names[k] : k \in 1..Len(Names)} :
        header = <<"timestamp">> \o Sorted(S)

\* C17: in a flat report file the header is 'timestamp' and the channels in
\* lexicographic order, and the row of every run holds under the column of
\* channel c the value of c in that run; a run starts the file anew exactly
\* if it is missing or empty or its header has another number of columns
\* than the run has channels, and otherwise appends one row.
C17_RowsUnderHeader ==
    [][flat_file' # flat_file =>
        /\ InOrder(flat_file'.lines[1])
        /\ \A r \in 1..Len(flat_runs') :
                LET header == flat_file'.lines[1]
                    row == flat_file'.lines[r + 1]
                IN  /\ Len(row) = Len(header)
                    /\ \A j \in 2..Len(header) :
                            /\ header[j] \in DOMAIN flat_runs'[r]
                            /\ row[j] = Str(flat_runs'[r][header[j]])
        /\ IF \/ ~flat_file.exists
              \/ flat_file.lines = <<>>
              \/ Len(flat_file.lines[1]) # Len(flat_file'.lines[Len(flat_file'.lines)])
           THEN Len(flat_file'.lines) = 2
           ELSE /\ Len(flat_file'.lines) = Len(flat_file.lines) + 1
                /\ SubSeq(flat_file'.lines, 1, Len(flat_file.lines)) = flat_file.lines]_vars

\* C19: a process that exits with status 1 has made 3 token requests and no
\* API request; a process that got to its API requests exits with status 0.
C19_ThreeAttemptsThenExit ==
    /\ exit_status = <<1>> => token_posts = 3 /\ ~api_requests
    /\ (rpc = "exited" /\ api_requests) => exit_status = <<0>>

\* C18: in a completed run a channel of which no item was retained has all
\* its counters and ratios at 0 after finalization, and a column in the
\* flat report files.
C18_EmptyChannelIsZero ==
    pc = "done" =>
        \A c \in Channels :
            ItemsOf(c) = {} =>
                LET f == FinalStats(stats[c])
                IN  /\ f.num_posts = 0
                    /\ f.num_interactions = 0
                    /\ f.num_comment_candidates = 0
                    /\ f.num_negative = 0
                    /\ f.num_neutral = 0
                    /\ f.num_positive = 0
                    /\ f.negative_polarity_ratio[1] = 0
                    /\ f.positive_polarity_ratio[1] = 0
                    /\ c \in reports.flat

\* The length of the longest prefix of delegator['delegates'] whose threads
\* have all ended.
FinishedPrefix ==
    CHOOSE k \in 0..Len(delegates) :
        /\ \A i \in 1..k : ~tasks[delegates[i]].alive
        /\ k = Len(delegates) \/ tasks[delegates[k + 1]].alive

\* C20: a non-blocking join_delegates joins the finished handles at the
\* front of the list and no other, leaves the handles behind the first
\* running one listed, and waits for no thread; a blocking one joins every
\* handle, all of them ended, and leaves the list empty; both fold every
\* queued result and leave the queue empty.
C20_JoinDelegates ==
    [][MainStep =>
        /\ (pc = "paginate" /\ last' = "ratelimit" /\ delegates # <<>>) =>
              /\ num_joined' = FinishedPrefix
              /\ tasks' = tasks
              /\ LET rest == SubSeq(delegates, FinishedPrefix + 2, Len(delegates))
                 IN  IF FinishedPrefix = Len(delegates) THEN delegates' = <<>>
                     ELSE delegates' \in {rest, <<delegates[FinishedPrefix + 1]>> \o rest}
              /\ queue' = <<>>
              /\ TotalFolds' = TotalFolds + Len(queue)
        /\ pc = "finalize" =>
              /\ num_joined' = Len(delegates)
              /\ \A k \in 1..Len(delegates) : ~tasks'[delegates[k]].alive
              /\ delegates' = <<>>
              /\ queue' = <<>>
              /\ TotalFolds' = TotalFolds + Len(queue)]_vars

\* C20 witness: a non-blocking call has joined one finished handle, folded
\* its result and returned while a thread was running.
C20_Witness ==
    /\ pc = "paginate"
    /\ last = "ratelimit"
    /\ num_joined = 1
    /\ Running # {}
    /\ TotalFolds = 1
    /\ queue = <<>>

\* The handles in delegator['delegates'].
Listed == {delegates[k] : k \in 1..Len(delegates)}

\* C21: the handle of every enrichment thread that is still running is in
\* delegator['delegates'], so that the blocking join at the end waits for it.
C21_RunningStaysListed == Running \subseteq Listed

\* C22: when a run has completed, no channel has more results in its three
\* polarity buckets than interactions, and both ratios are between 0 and 1.
C22_BucketsWithinInteractions ==
    pc = "done" =>
        \A c \in Channels :
            LET f == FinalStats(stats[c])
            IN  /\ f.num_negative + f.num_neutral + f.num_positive <= f.num_interactions
                /\ f.negative_polarity_ratio[1] >= 0
                /\ f.negative_polarity_ratio[1] <= f.negative_polarity_ratio[2]
                /\ f.positive_polarity_ratio[1] >= 0
                /\ f.positive_polarity_ratio[1] <= f.positive_polarity_ratio[2]

\* The entities of the first k results a side has folded, in fold order, and
\* the place at which entity e was first folded.
RECURSIVE EntitiesFolded(_, _)
EntitiesFolded(side, k) ==
    IF k = 0 THEN <<>> ELSE EntitiesFolded(side, k - 1) \o Turn(side, k).entities

FirstFolded(l, e) == CHOOSE i \in 1..Len(l) : l[i] = e /\ \A j \in 1..(i - 1) : l[j] # e

\* Entity e with count n ranks before entity f with count m.
Before(l, e, f) ==
    \/ Occurrences(l, e) > Occurrences(l, f)
    \/ Occurrences(l, e) = Occurrences(l, f) /\ FirstFolded(l, e) < FirstFolded(l, f)

\* C25: at finalization top_entities holds the TopK most frequent of the
\* entities folded into the accumulator (all of them if fewer), each once
\* with its number of occurrences, by descending count; equal counts are
\* ordered, and cut off, by the order in which they were first folded.
C25_TopEntities ==
    \A side \in 1..2 :
        LET l == EntitiesFolded(side, folded[side])
            distinct == {l[i] : i \in 1..Len(l)}
            top == FinalStats(acc[side]).top_entities
            listed == {top[i].word : i \in 1..Len(top)}
        IN  /\ acc[side].entities = l
            /\ Len(top) = IF Cardinality(distinct) < TopK THEN Cardinality(distinct) ELSE TopK
            /\ \A i \in 1..Len(top) :
                    top[i].word \in distinct /\ top[i].n = Occurrences(l, top[i].word)
            /\ \A i, j \in 1..Len(top) : i < j => Before(l, top[i].word, top[j].word)
            /\ \A e \in distinct \ listed : \A f \in listed : Before(l, f, e)

\* C25 witness: y was folded first and x twice after it; x is listed and y
\* is cut off.
C25_Witness ==
    /\ Folded
    /\ acc[1].entities = <<"y", "x", "x">>
    /\ FinalStats(acc[1]).top_entities = <<[word |-> "x", n |-> 2]>>
    /\ FinalStats(acc[2]).top_entities = <<[word |-> "x", n |-> 2]>>

\* The paths of the nodes of a comment forest that are placeholders
\* (more = TRUE) or comments (more = FALSE), at any depth.
RECURSIVE PathsIn(_, _, _)
PathsIn(children, prefix, more) ==
    UNION {(IF (children[i].kind = "more") = more THEN {Append(prefix, i)} ELSE {})
                \cup PathsIn(children[i].replies, Append(prefix, i), more)
            : i \in 1..Len(children)}

SeqToSet(l) == {l[k] : k \in 1..Len(l)}

\* C23: process_article starts one thread for every comment of the forest,
\* at any depth and of any age, and adds one to num_interactions for each;
\* every "more" placeholder is appended to more_comments once and changes
\* nothing else: no counter, no thread, no candidate to fetch.
C23_ArticleRetainsAll ==
    (hook = "process_article" /\ hook_called) =>
        LET forest == hook_payload[1].children
            comments == PathsIn(forest, <<>>, FALSE)
            placeholders == PathsIn(forest, <<>>, TRUE)
            started == [t \in 1..(Len(tasks) - 1) |-> tasks[t + 1].item]
        IN  /\ stats[1].num_interactions = 1 + Cardinality(comments)
            /\ Len(started) = Cardinality(comments)
            /\ {started[t].path : t \in 1..Len(started)} = comments
            /\ \A t \in 1..Len(started) :
                    started[t] = CommentId(PostId(1, None, 1), None, started[t].path)
            /\ delegates = [t \in 1..Len(tasks) |-> t]
            /\ Len(more_comments) = Cardinality(placeholders)
            /\ SeqToSet(more_comments) = placeholders
            /\ stats[1].num_posts = 1
            /\ stats[1].num_urls = 0
            /\ stats[1].num_selftexts = 1
            /\ stats[1].comment_candidates = <<PostId(1, None, 1)>>
            /\ stats[2] = StatsTemplate

\* C23 witness: a forest three levels deep with a comment older than
\* max_age at the top, a reply under it, and placeholders at two levels.
C23_Witness ==
    /\ hook = "process_article"
    /\ hook_called
    /\ Len(hook_payload[1].children) = 2
    /\ hook_payload[1].children[1].age > MaxAge
    /\ <<1, 1, 1>> \in PathsIn(hook_payload[1].children, <<>>, FALSE)
    /\ <<2>> \in SeqToSet(more_comments)
    /\ Len(more_comments) = 1
    /\ stats[1].num_interactions = 4

\* The posts process_post_list retains: those before the first post of age
\* >= max_age and before the first malformed one.
RetainedPosts ==
    LET children == hook_payload[1].children
    IN  {i \in 1..Len(children) :
            \A j \in 1..i : ~children[j].bad /\ children[j].age < MaxAge}

\* The candidates among the first k children, in page order.
RECURSIVE CandidatesAmong(_)
CandidatesAmong(k) ==
    IF k = 0 THEN <<>>
    ELSE CandidatesAmong(k - 1) \o
            (IF /\ k \in RetainedPosts
                /\ hook_payload[1].children[k].ups > MinUps
                /\ hook_payload[1].children[k].num_comments >= 1
             THEN <<PostId(1, None, k)>> ELSE <<>>)

\* C24: after a call of process_post_list every retained post has added one
\* to num_posts and to num_interactions, one to num_urls if it has no
\* selftext and one to num_selftexts if it has (num_posts = num_urls +
\* num_selftexts), has one thread started for it, and is a comment candidate
\* if and only if its ups exceed min_ups and it has at least one comment.
C24_PostCounters ==
    (hook = "process_post_list" /\ hook_called) =>
        LET children == hook_payload[1].children
        IN  /\ stats[1].num_posts = Cardinality(RetainedPosts)
            /\ stats[1].num_interactions = Cardinality(RetainedPosts)
            /\ stats[1].num_urls
                    = Cardinality({i \in RetainedPosts : ~children[i].selftext})
            /\ stats[1].num_selftexts
                    = Cardinality({i \in RetainedPosts : children[i].selftext})
            /\ stats[1].num_posts = stats[1].num_urls + stats[1].num_selftexts
            /\ Len(tasks) = Cardinality(RetainedPosts)
            /\ \A i \in RetainedPosts : tasks[i].item = PostId(1, None, i)
            /\ delegates = [t \in 1..Len(tasks) |-> t]
            /\ stats[1].comment_candidates = CandidatesAmong(Len(children))
            /\ more_comments = <<>>

\* C24 witness: a page of a link post that is a candidate and a self post
\* that has no comment.
C24_Witness ==
    /\ hook = "process_post_list"
    /\ hook_called
    /\ Len(hook_payload[1].children) = 2
    /\ Len(tasks) = 2
    /\ stats[1].num_urls = 1
    /\ stats[1].num_selftexts = 1
    /\ stats[1].comment_candidates = <<PostId(1, None, 1)>>
    /\ hook_payload[1].children[2].num_comments = 0
    /\ hook_payload[1].children[2].ups > MinUps

====
